---- MODULE Spec2Model ----
(***************************************************************************)
(* A model of the dev-editor middleware (src/integrations/dev-editor.ts):  *)
(* the request dispatcher, its handlers over the filesystem, and the       *)
(* helper functions sanitizeFilename, slugify and frontmatterToYaml.       *)
(*                                                                         *)
(* Strings are TLA+ strings, handled character by character: Len, SubSeq,  *)
(* Head, Tail and \o act on them as on any sequence.                       *)
(***************************************************************************)
EXTENDS Naturals, Sequences, FiniteSets, TLC

VARIABLES
    fs,         \* the filesystem: absolute path |-> [kind, content]
    phase,      \* "idle", "pending" (a request has arrived), "done" (answered)
    req,        \* the request at hand: [url, method, body]
    res,        \* the responses sent for it (each res.end call), in order
    failed,     \* the errors thrown or rejected while it was handled
    passed,     \* TRUE when it was handed on with next()
    prevFs,     \* the filesystem before it was handled
    posted,     \* per config endpoint, the body of its last successful POST
    uploads,    \* the paths that uploads have returned and no delete has removed since
    sanIn,      \* the string handed to a sanitization function
    sanFn,      \* the function applied to it: "none", "sanitizeFilename", "slugify"
    sanOut,     \* what it returned
    calls       \* the create requests in flight: caller |-> [pc, req, write, reply, out]

serverVars == <<fs, phase, req, res, failed, passed, prevFs, posted, uploads>>
sanVars == <<sanIn, sanFn, sanOut>>
raceVars == <<calls>>
vars == <<fs, phase, req, res, failed, passed, prevFs, posted, uploads, sanIn, sanFn, sanOut, calls>>

---------------------------------------------------------------------------
(* Bounds *)

\* the longest string handed to a sanitization function on its own
MaxLen == 4

\* the number of create requests that can be in flight together
MaxCalls == 2

---------------------------------------------------------------------------
(* Strings *)

\* s[i], as a string of one character
Ch(s, i) == SubSeq(s, i, i)

Chars(s) == {Ch(s, i) : i \in 1..Len(s)}

LowerCase == Chars("abcdefghijklmnopqrstuvwxyz")
Digit == Chars("0123456789")

\* String.prototype.toLowerCase, on one character
LowerOf(c) ==
    LET up == "ABCDEFGHIJKLMNOPQRSTUVWXYZ"
        at == {i \in 1..Len(up) : Ch(up, i) = c}
    IN  IF at = {} THEN c ELSE Ch("abcdefghijklmnopqrstuvwxyz", CHOOSE i \in at : TRUE)

RECURSIVE Join(_, _, _)
\* lines.join(sep), from line i on
Join(lines, sep, i) ==
    IF i > Len(lines) THEN ""
    ELSE (IF i > 1 THEN sep ELSE "") \o lines[i] \o Join(lines, sep, i + 1)

RECURSIVE ConcatRange(_, _, _)
\* pieces[lo] \o ... \o pieces[hi]
ConcatRange(pieces, lo, hi) ==
    IF lo > hi THEN ""
    ELSE IF lo = hi THEN pieces[lo]
    ELSE ConcatRange(pieces, lo, (lo + hi) \div 2)
         \o ConcatRange(pieces, (lo + hi) \div 2 + 1, hi)

\* the string of the given pieces, one for each character of a string
Concat(pieces) == ConcatRange(pieces, 1, Len(pieces))

toLowerCase(s) == Concat([i \in 1..Len(s) |-> LowerOf(Ch(s, i))])

\* [a-z0-9]
IsAlnum(c) == c \in LowerCase \cup Digit

\* .replace(/-+/g, '-'): every run of '-' becomes one '-'
CollapseDashes(s) ==
    Concat([i \in 1..Len(s) |->
               IF i > 1 /\ Ch(s, i) = "-" /\ Ch(s, i - 1) = "-" THEN "" ELSE Ch(s, i)])

\* .replace(/^-|-$/g, ''): drop one leading '-' and one trailing '-'
TrimDash(s) ==
    LET a == IF Len(s) > 0 /\ Ch(s, 1) = "-" THEN Tail(s) ELSE s
    IN  IF Len(a) > 0 /\ Ch(a, Len(a)) = "-" THEN SubSeq(a, 1, Len(a) - 1) ELSE a

\* String.prototype.startsWith
startsWith(s, prefix) == Len(prefix) <= Len(s) /\ SubSeq(s, 1, Len(prefix)) = prefix

\* String.prototype.endsWith
endsWith(s, suffix) ==
    Len(suffix) <= Len(s) /\ SubSeq(s, Len(s) - Len(suffix) + 1, Len(s)) = suffix

\* String.prototype.includes, for one character
includes(s, c) == \E i \in 1..Len(s) : Ch(s, i) = c

---------------------------------------------------------------------------
(* sanitizeFilename and slugify *)

\* .replace(/[^a-z0-9.-]/g, '-')
ReplaceUnsafe(s) ==
    Concat([i \in 1..Len(s) |->
               IF IsAlnum(Ch(s, i)) \/ Ch(s, i) \in {".", "-"} THEN Ch(s, i) ELSE "-"])

\* .replace(/[^a-z0-9]+/g, '-'): each run of other characters becomes one
\* '-'
ReplaceRuns(s) ==
    CollapseDashes(Concat([i \in 1..Len(s) |-> IF IsAlnum(Ch(s, i)) THEN Ch(s, i) ELSE "-"]))

\* a slip in sanitizeFilename: the ends are trimmed before the runs of '-'
\* are collapsed
sanitizeFilenameTrimFirst(name) == CollapseDashes(TrimDash(ReplaceUnsafe(toLowerCase(name))))

sanitizeFilename(name) == TrimDash(CollapseDashes(ReplaceUnsafe(toLowerCase(name))))

\* a slip in slugify: '.' is kept, as in sanitizeFilename's character class
slugifyKeepDot(text) ==
    TrimDash(CollapseDashes(
        Concat([i \in 1..Len(toLowerCase(text)) |->
                   IF IsAlnum(Ch(toLowerCase(text), i)) \/ Ch(toLowerCase(text), i) = "."
                   THEN Ch(toLowerCase(text), i) ELSE "-"])))

slugify(text) == TrimDash(ReplaceRuns(toLowerCase(text)))

---------------------------------------------------------------------------
(* Paths (node:path, POSIX) *)

\* the index of the k-th occurrence of sep in s; 0 for k = 0, and
\* Len(s) + 1 when there are fewer
SepAt(s, sep, k) ==
    IF k = 0 THEN 0
    ELSE IF k > Cardinality({i \in 1..Len(s) : Ch(s, i) = sep}) THEN Len(s) + 1
    ELSE CHOOSE i \in 1..Len(s) :
            /\ Ch(s, i) = sep
            /\ Cardinality({j \in 1..(i - 1) : Ch(s, j) = sep}) = k - 1

\* s.split(sep), sep one character: the pieces between its occurrences
Split(s, sep) ==
    [k \in 1..(Cardinality({i \in 1..Len(s) : Ch(s, i) = sep}) + 1) |->
        SubSeq(s, SepAt(s, sep, k - 1) + 1, SepAt(s, sep, k) - 1)]

RECURSIVE Normalize(_, _, _)
\* the segments kept so far followed by segs[i..], with '', '.' and '..'
\* resolved
Normalize(kept, segs, i) ==
    IF i > Len(segs) THEN kept
    ELSE IF segs[i] \in {"", "."} THEN Normalize(kept, segs, i + 1)
    ELSE IF segs[i] = ".."
         THEN Normalize(IF kept = <<>> THEN <<>> ELSE SubSeq(kept, 1, Len(kept) - 1),
                        segs, i + 1)
    ELSE Normalize(Append(kept, segs[i]), segs, i + 1)

RECURSIVE JoinFrom(_, _)
JoinFrom(segs, i) == IF i > Len(segs) THEN "" ELSE "/" \o segs[i] \o JoinFrom(segs, i + 1)

\* the absolute path of the given segments
JoinPath(segs) == IF segs = <<>> THEN "/" ELSE JoinFrom(segs, 1)

\* path.resolve(from, to), from an absolute path: to is taken from the root
\* when it starts with '/', and the result is normalized
resolve(from, to) ==
    JoinPath(Normalize(<<>>, Split(IF startsWith(to, "/") THEN to ELSE from \o "/" \o to, "/"), 1))

\* the segments of a path, empty ones left out
Segments(p) == SelectSeq(Split(p, "/"), LAMBDA g : g # "")

\* path.basename(p): the last segment, trailing '/' ignored
basename(p) == IF Segments(p) = <<>> THEN "" ELSE Segments(p)[Len(Segments(p))]

\* path.extname(name), name holding no '/': from the last '.' on, and ''
\* when there is none, when it is the first character, or for '..'
extname(name) ==
    LET dots == {i \in 1..Len(name) : Ch(name, i) = "."}
        d == IF dots = {} THEN 0 ELSE CHOOSE i \in dots : \A j \in dots : j <= i
    IN  IF d <= 1 \/ name = ".." THEN "" ELSE SubSeq(name, d, Len(name))

\* path.dirname(p) of a normalized absolute path
dirname(p) == JoinPath(SubSeq(Segments(p), 1, Len(Segments(p)) - 1))

\* p is dir or lies below it
IsInside(p, dir) == p = dir \/ startsWith(p, IF dir = "/" THEN dir ELSE dir \o "/")

\* process.cwd()
cwd == "/w"

contentDir == resolve(cwd, "src/content")
dataDir == resolve(cwd, "src/data")
galleryDir == resolve(cwd, "public/gallery")
galleryConfigPath == resolve(dataDir, "gallery-config.json")
memesDir == resolve(cwd, "public/memes")
memesConfigPath == resolve(dataDir, "memes-config.json")

---------------------------------------------------------------------------
(* The filesystem (node:fs).  fs maps each existing absolute path to its   *)
(* node, a directory or a regular file with its content; the root always   *)
(* exists.  A call returns [fs, err, val]: err is <<>> or holds the error  *)
(* thrown.                                                                 *)

FsError(code) == [name |-> "Error", message |-> code]
TypeError(what) == [name |-> "TypeError", message |-> what]
SyntaxError(what) == [name |-> "SyntaxError", message |-> what]

DirNode == [kind |-> "dir", content |-> ""]
FileNode(c) == [kind |-> "file", content |-> c]

IsDir(f, p) == p \in DOMAIN f /\ f[p].kind = "dir"
IsFile(f, p) == p \in DOMAIN f /\ f[p].kind = "file"

\* fs.existsSync
existsSync(f, p) == p \in DOMAIN f

Put(f, p, node) == [q \in DOMAIN f \cup {p} |-> IF q = p THEN node ELSE f[q]]

Ok(f, v) == [fs |-> f, err |-> <<>>, val |-> v]
Fail(f, e) == [fs |-> f, err |-> <<e>>, val |-> ""]

RECURSIVE MkdirFrom(_, _, _)
\* makes the first n, n + 1, ... segments of segs, each unless it exists
MkdirFrom(f, segs, n) ==
    IF n > Len(segs) THEN Ok(f, "")
    ELSE LET q == JoinPath(SubSeq(segs, 1, n))
         IN  IF IsFile(f, q)
             THEN Fail(f, FsError(IF n = Len(segs) THEN "EEXIST" ELSE "ENOTDIR"))
             ELSE MkdirFrom(IF q \in DOMAIN f THEN f ELSE Put(f, q, DirNode), segs, n + 1)

\* fs.promises.mkdir(p, { recursive: true })
mkdir(f, p) == MkdirFrom(f, Segments(p), 1)

\* fs.promises.writeFile(p, content)
writeFile(f, p, content) ==
    IF IsDir(f, p) THEN Fail(f, FsError("EISDIR"))
    ELSE IF dirname(p) \notin DOMAIN f THEN Fail(f, FsError("ENOENT"))
    ELSE IF IsFile(f, dirname(p)) THEN Fail(f, FsError("ENOTDIR"))
    ELSE Ok(Put(f, p, FileNode(content)), "")

\* fs.promises.readFile(p, 'utf-8')
readFile(f, p) ==
    IF p \notin DOMAIN f THEN Fail(f, FsError("ENOENT"))
    ELSE IF IsDir(f, p) THEN Fail(f, FsError("EISDIR"))
    ELSE Ok(f, f[p].content)

\* fs.promises.unlink(p): removes a file, never a directory
unlink(f, p) ==
    IF p \notin DOMAIN f THEN Fail(f, FsError("ENOENT"))
    ELSE IF IsDir(f, p) THEN Fail(f, FsError("EISDIR"))
    ELSE Ok([q \in DOMAIN f \ {p} |-> f[q]], "")

\* fs.promises.readdir(p): the names of the entries of directory p
readdir(f, p) ==
    IF p \notin DOMAIN f THEN Fail(f, FsError("ENOENT"))
    ELSE IF IsFile(f, p) THEN Fail(f, FsError("ENOTDIR"))
    ELSE Ok(f, {basename(q) : q \in {x \in DOMAIN f : x # "/" /\ dirname(x) = p}})

\* the regular files of f
Files(f) == {p \in DOMAIN f : f[p].kind = "file"}

---------------------------------------------------------------------------
(* JavaScript values and JSON.  A value is a record tagged by its type; a  *)
(* number is held as its numeral; an object is the sequence of its         *)
(* <<key, value>> entries, in order.                                       *)

Undefined == [t |-> "undefined"]
JNull == [t |-> "null"]
JBool(b) == [t |-> "bool", b |-> b]
JNum(n) == [t |-> "num", n |-> n]
JStr(s) == [t |-> "str", s |-> s]
JArr(items) == [t |-> "arr", items |-> items]
JObj(entries) == [t |-> "obj", entries |-> entries]

IsStr(v) == v.t = "str"

\* obj[key], and undefined when obj is no object or has no such key (of a
\* key written twice JSON.parse keeps the last value)
Get(obj, key) ==
    IF obj.t # "obj" THEN Undefined
    ELSE LET hits == {i \in 1..Len(obj.entries) : obj.entries[i][1] = key}
         IN  IF hits = {} THEN Undefined
             ELSE obj.entries[CHOOSE i \in hits : \A j \in hits : j <= i][2]

\* JavaScript truthiness
Truthy(v) ==
    CASE v.t \in {"undefined", "null"} -> FALSE
      [] v.t = "bool" -> v.b
      [] v.t = "num" -> v.n # "0"
      [] v.t = "str" -> v.s # ""
      [] OTHER -> TRUE

\* the characters of a JSON string literal for one character
EscapeChar(c) ==
    CASE c = "\"" -> "\\\""
      [] c = "\\" -> "\\\\"
      [] c = "\n" -> "\\n"
      [] c = "\t" -> "\\t"
      [] OTHER -> c

Quote(s) == "\"" \o Concat([i \in 1..Len(s) |-> EscapeChar(Ch(s, i))]) \o "\""

RECURSIVE Spaces(_)
Spaces(n) == IF n = 0 THEN "" ELSE " " \o Spaces(n - 1)

\* the line break and indentation before an item at nesting depth level
Break(indent, level) == IF indent = 0 THEN "" ELSE "\n" \o Spaces(indent * level)

RECURSIVE Stringify(_, _, _), StringifyItems(_, _, _, _), StringifyEntries(_, _, _, _)
\* JSON.stringify(v, null, indent) at nesting depth level; indent 0 is
\* JSON.stringify(v)
Stringify(v, indent, level) ==
    CASE v.t = "null" -> "null"
      [] v.t = "bool" -> IF v.b THEN "true" ELSE "false"
      [] v.t = "num" -> v.n
      [] v.t = "str" -> Quote(v.s)
      [] v.t = "arr" ->
            IF v.items = <<>> THEN "[]"
            ELSE "[" \o StringifyItems(v.items, indent, level + 1, 1)
                 \o Break(indent, level) \o "]"
      [] v.t = "obj" ->
            IF v.entries = <<>> THEN "{}"
            ELSE "{" \o StringifyEntries(v.entries, indent, level + 1, 1)
                 \o Break(indent, level) \o "}"

StringifyItems(items, indent, level, i) ==
    IF i > Len(items) THEN ""
    ELSE (IF i > 1 THEN "," ELSE "") \o Break(indent, level)
         \o Stringify(items[i], indent, level)
         \o StringifyItems(items, indent, level, i + 1)

StringifyEntries(entries, indent, level, i) ==
    IF i > Len(entries) THEN ""
    ELSE (IF i > 1 THEN "," ELSE "") \o Break(indent, level)
         \o Quote(entries[i][1]) \o ":" \o (IF indent = 0 THEN "" ELSE " ")
         \o Stringify(entries[i][2], indent, level)
         \o StringifyEntries(entries, indent, level, i + 1)

\* JSON.stringify(v)
JSONstringify(v) == Stringify(v, 0, 0)

\* JSON.stringify(v, null, 2)
JSONstringifyPretty(v) == Stringify(v, 2, 0)

\* text has lit at index i
HasAt(text, i, lit) ==
    i + Len(lit) - 1 <= Len(text) /\ SubSeq(text, i, i + Len(lit) - 1) = lit

RECURSIVE SkipWs(_, _)
SkipWs(t, i) ==
    IF i <= Len(t) /\ Ch(t, i) \in {" ", "\n", "\t"} THEN SkipWs(t, i + 1) ELSE i

RECURSIVE DigitsEnd(_, _)
\* the index after the run of digits that starts at t[i]
DigitsEnd(t, i) == IF i <= Len(t) /\ Ch(t, i) \in Digit THEN DigitsEnd(t, i + 1) ELSE i

Parsed(v, after) == [ok |-> TRUE, val |-> v, next |-> after]
NoParse == [ok |-> FALSE, val |-> Undefined, next |-> 0]

\* the number of backslashes that stand immediately before t[j], none of
\* them before t[i]
BackslashRun(t, i, j) ==
    IF j <= i \/ Ch(t, j - 1) # "\\" THEN 0
    ELSE (j - 1) - (CHOOSE k \in (i - 1)..(j - 1) :
                       /\ k = i - 1 \/ Ch(t, k) # "\\"
                       /\ \A m \in (k + 1)..(j - 1) : Ch(t, m) = "\\")

\* t[k] follows the backslash of an escape
Escaped(t, i, k) == BackslashRun(t, i, k) % 2 = 1

\* the indices of the quotes that can close the literal that starts at t[i]
ClosingQuotes(t, i) == {j \in i..Len(t) : Ch(t, j) = "\"" /\ ~Escaped(t, i, j)}

\* t[k] may not stand where it does in the literal that starts at t[i]: an
\* escape that JSON does not have, or a control character
BadChar(t, i, k) ==
    IF Escaped(t, i, k) THEN Ch(t, k) \notin {"\"", "\\", "/", "n", "t"}
    ELSE Ch(t, k) \in {"\n", "\t"}

\* what t[k] of a literal that starts at t[i] adds to its value
Unescaped(t, i, k) ==
    IF Escaped(t, i, k)
    THEN IF Ch(t, k) = "n" THEN "\n" ELSE IF Ch(t, k) = "t" THEN "\t" ELSE Ch(t, k)
    ELSE IF Ch(t, k) = "\\" THEN ""
    ELSE Ch(t, k)

\* the literal that starts at t[i] and ends before the quote t[e]
StringBefore(t, i, e) ==
    IF \E k \in i..(e - 1) : BadChar(t, i, k) THEN NoParse
    ELSE Parsed(Concat([k \in 1..(e - i) |-> Unescaped(t, i, i + k - 1)]), e + 1)

\* the string literal whose opening quote precedes t[i]: [ok, val, next]
ParseString(t, i) ==
    IF ClosingQuotes(t, i) = {} THEN NoParse
    ELSE StringBefore(t, i, CHOOSE e \in ClosingQuotes(t, i) :
                                \A j \in ClosingQuotes(t, i) : e <= j)

\* the value of an object with the given entries, a key written again
\* replacing its earlier value in place
SetEntry(entries, key, val) ==
    IF \E i \in 1..Len(entries) : entries[i][1] = key
    THEN [i \in 1..Len(entries) |-> IF entries[i][1] = key THEN <<key, val>> ELSE entries[i]]
    ELSE Append(entries, <<key, val>>)

\* the string value of a parsed string literal
StringParsed(s) == IF s.ok THEN Parsed(JStr(s.val), s.next) ELSE NoParse

\* the number whose digits are t[i..e-1]; a leading zero stands alone
NumberParsed(t, i, e) ==
    IF Ch(t, i) = "0" /\ e > i + 1 THEN NoParse ELSE Parsed(JNum(SubSeq(t, i, e - 1)), e)

RECURSIVE ParseValue(_, _), ValueAt(_, _), ArrayAt(_, _), ObjectAt(_, _)
RECURSIVE ParseItems(_, _, _), ItemParsed(_, _, _), ItemEnd(_, _, _)
RECURSIVE ParseEntries(_, _, _), KeyAt(_, _, _), KeyParsed(_, _, _)
RECURSIVE ColonAt(_, _, _, _), EntryParsed(_, _, _, _), EntryEnd(_, _, _)

\* the JSON value that starts at t[i], white space skipped: [ok, val, next]
ParseValue(t, i) == ValueAt(t, SkipWs(t, i))

\* the JSON value whose first character is t[i]
ValueAt(t, i) ==
    IF i > Len(t) THEN NoParse
    ELSE IF HasAt(t, i, "null") THEN Parsed(JNull, i + 4)
    ELSE IF HasAt(t, i, "true") THEN Parsed(JBool(TRUE), i + 4)
    ELSE IF HasAt(t, i, "false") THEN Parsed(JBool(FALSE), i + 5)
    ELSE IF Ch(t, i) \in Digit THEN NumberParsed(t, i, DigitsEnd(t, i))
    ELSE IF Ch(t, i) = "\"" THEN StringParsed(ParseString(t, i + 1))
    ELSE IF Ch(t, i) = "[" THEN ArrayAt(t, SkipWs(t, i + 1))
    ELSE IF Ch(t, i) = "{" THEN ObjectAt(t, SkipWs(t, i + 1))
    ELSE NoParse

\* the array whose '[' is followed, white space skipped, by t[k]
ArrayAt(t, k) ==
    IF HasAt(t, k, "]") THEN Parsed(JArr(<<>>), k + 1) ELSE ParseItems(t, k, <<>>)

\* the object whose '{' is followed, white space skipped, by t[k]
ObjectAt(t, k) ==
    IF HasAt(t, k, "}") THEN Parsed(JObj(<<>>), k + 1) ELSE ParseEntries(t, k, <<>>)

\* the items of an array from t[i] on: a value, then ',' or ']'
ParseItems(t, i, acc) == ItemParsed(t, acc, ParseValue(t, i))

ItemParsed(t, acc, v) ==
    IF ~v.ok THEN NoParse ELSE ItemEnd(t, Append(acc, v.val), SkipWs(t, v.next))

ItemEnd(t, acc, j) ==
    IF j > Len(t) THEN NoParse
    ELSE IF Ch(t, j) = "," THEN ParseItems(t, j + 1, acc)
    ELSE IF Ch(t, j) = "]" THEN Parsed(JArr(acc), j + 1)
    ELSE NoParse

\* the entries of an object from t[i] on: "key" : value, then ',' or '}'
ParseEntries(t, i, acc) == KeyAt(t, acc, SkipWs(t, i))

KeyAt(t, acc, k) ==
    IF HasAt(t, k, "\"") THEN KeyParsed(t, acc, ParseString(t, k + 1)) ELSE NoParse

KeyParsed(t, acc, key) ==
    IF ~key.ok THEN NoParse ELSE ColonAt(t, acc, key.val, SkipWs(t, key.next))

ColonAt(t, acc, key, c) ==
    IF HasAt(t, c, ":") THEN EntryParsed(t, acc, key, ParseValue(t, c + 1)) ELSE NoParse

EntryParsed(t, acc, key, v) ==
    IF ~v.ok THEN NoParse
    ELSE EntryEnd(t, SetEntry(acc, key, v.val), SkipWs(t, v.next))

EntryEnd(t, acc, j) ==
    IF j > Len(t) THEN NoParse
    ELSE IF Ch(t, j) = "," THEN ParseEntries(t, j + 1, acc)
    ELSE IF Ch(t, j) = "}" THEN Parsed(JObj(acc), j + 1)
    ELSE NoParse

\* a parsed value with nothing but white space after it
Whole(text, v) == IF v.ok /\ SkipWs(text, v.next) > Len(text) THEN v ELSE NoParse

\* JSON.parse(text): [ok, val]; ok is FALSE where JSON.parse throws
JSONparse(text) == Whole(text, ParseValue(text, 1))

\* String(n) of a number below 10
Numeral(n) == Ch("0123456789", n + 1)

\* String(err)
String(err) == err.name \o ": " \o err.message

---------------------------------------------------------------------------
(* frontmatterToYaml *)

RECURSIVE ToStr(_)
\* `${v}`: the string a template literal makes of a value; an array is
\* joined with ',', null and undefined items giving ''
ToStr(v) ==
    CASE v.t = "str" -> v.s
      [] v.t = "bool" -> IF v.b THEN "true" ELSE "false"
      [] v.t = "num" -> v.n
      [] v.t = "null" -> "null"
      [] v.t = "undefined" -> "undefined"
      [] v.t = "arr" ->
            Join([i \in 1..Len(v.items) |->
                     IF v.items[i].t \in {"null", "undefined"} THEN ""
                     ELSE ToStr(v.items[i])], ",", 1)
      [] v.t = "obj" -> "[object Object]"

\* /^\d{4}-\d{2}-\d{2}$/.test(s)
IsDateString(s) ==
    /\ Len(s) = 10
    /\ \A i \in 1..10 : IF i \in {5, 8} THEN Ch(s, i) = "-" ELSE Ch(s, i) \in Digit

\* value.replace(/"/g, '\\"')
EscapeQuotes(s) ==
    Concat([i \in 1..Len(s) |-> IF Ch(s, i) = "\"" THEN "\\\"" ELSE Ch(s, i)])

\* the line(s) of one entry; <<>> stands for the null of an empty array,
\* which .filter(Boolean) drops
YamlEntry(key, value) ==
    IF value.t = "str" /\ IsDateString(value.s) THEN <<key \o ": " \o value.s>>
    ELSE IF value.t = "arr"
         THEN IF value.items = <<>> THEN <<>>
              ELSE <<key \o ":\n"
                     \o Join([i \in 1..Len(value.items) |-> "  - " \o ToStr(value.items[i])],
                             "\n", 1)>>
    ELSE IF value.t = "str"
              /\ (includes(value.s, ":") \/ includes(value.s, "#")
                  \/ includes(value.s, "\"") \/ includes(value.s, "'"))
         THEN <<key \o ": \"" \o EscapeQuotes(value.s) \o "\"">>
    ELSE <<key \o ": " \o ToStr(value)>>

RECURSIVE YamlLines(_, _)
YamlLines(entries, i) ==
    IF i > Len(entries) THEN <<>>
    ELSE YamlEntry(entries[i][1], entries[i][2]) \o YamlLines(entries, i + 1)

\* Object.entries(data): the entries of an object, the indexed items of an
\* array or characters of a string, none for a number or a boolean; it
\* throws on undefined and null, which the caller tells apart first
ObjectEntries(data) ==
    CASE data.t = "obj" -> data.entries
      [] data.t = "arr" -> [i \in 1..Len(data.items) |-> <<Numeral(i - 1), data.items[i]>>]
      [] data.t = "str" -> [i \in 1..Len(data.s) |-> <<Numeral(i - 1), JStr(Ch(data.s, i))>>]
      [] data.t \in {"num", "bool"} -> <<>>

frontmatterToYaml(data) == Join(YamlLines(ObjectEntries(data), 1), "\n", 1)

\* `---\n${yamlFrontmatter}\n---\n\n${body || ''}`
MarkdownContent(yamlFrontmatter, body) ==
    "---\n" \o yamlFrontmatter \o "\n---\n\n" \o (IF Truthy(body) THEN ToStr(body) ELSE "")

---------------------------------------------------------------------------
(* The handlers.  A handler takes the filesystem and the request and       *)
(* returns [fs, out, thrown, failed, passed, stored]: the filesystem it    *)
(* leaves, the responses it sent (res.end), the error it threw and did not *)
(* catch (<<>> when none), every error thrown on the way, whether next()   *)
(* was called, and the value a config POST has written (<<>> when none).   *)
(* The steps of a handler are operators of their own, each taking what the *)
(* steps before it have computed.                                          *)

Response(status, value) == [status |-> status, body |-> JSONstringify(value)]

Respond(f, status, value) ==
    [fs |-> f, out |-> <<Response(status, value)>>, thrown |-> <<>>,
     failed |-> <<>>, passed |-> FALSE, stored |-> <<>>]

\* res.end(content): the text as it is, status 200
RespondRaw(f, text) ==
    [fs |-> f, out |-> <<[status |-> 200, body |-> text]>>, thrown |-> <<>>,
     failed |-> <<>>, passed |-> FALSE, stored |-> <<>>]

Throw(f, e) ==
    [fs |-> f, out |-> <<>>, thrown |-> <<e>>, failed |-> <<e>>, passed |-> FALSE,
     stored |-> <<>>]

Obj1(k, v) == JObj(<< <<k, v>> >>)
Obj2(k1, v1, k2, v2) == JObj(<< <<k1, v1>>, <<k2, v2>> >>)

ErrorBody(msg) == Obj1("error", JStr(msg))
Success == Obj1("success", JBool(TRUE))

\* catch (err) { res.statusCode = 500; ...; res.end(JSON.stringify({ error: String(err) })) }
Catch(r) ==
    IF r.thrown = <<>> THEN r
    ELSE [r EXCEPT !.out = Append(r.out, Response(500, ErrorBody(String(r.thrown[1])))),
                   !.thrown = <<>>]

\* readJsonBody(req): the parsed body, or the rejection of JSON.parse
readJsonBody(r) == JSONparse(r.body)

\* const { ... } = value throws on null (and on undefined)
Destructurable(v) == v.t \notin {"null", "undefined"}

\* const { ... } = await readJsonBody(req) has gone through
HasFields(b) == b.ok /\ Destructurable(b.val)

\* and what is thrown when it has not
BodyError(f, b) ==
    IF ~b.ok THEN Throw(f, SyntaxError("Unexpected token"))
    ELSE Throw(f, TypeError("Cannot destructure"))

\* await of a filesystem call c, then res.end(JSON.stringify(value))
AfterCall(c, value) ==
    IF c.err # <<>> THEN Throw(c.fs, c.err[1]) ELSE Respond(c.fs, 200, value)

\* absolutePath.startsWith(dir): the containment check of the handlers
inside(p, dir) == startsWith(p, dir)

(* POST /__dev-editor/save *)
\* a save that writes the file before it checks where the path lies
saveAtWriteFirst(f, absolutePath, content) ==
    IF ~IsStr(content) THEN Throw(f, TypeError("ERR_INVALID_ARG_TYPE"))
    ELSE IF ~inside(absolutePath, contentDir)
         THEN Respond(writeFile(f, absolutePath, content.s).fs, 403,
                      ErrorBody("Can only edit content files"))
    ELSE AfterCall(writeFile(f, absolutePath, content.s), Success)

saveAt(f, absolutePath, content) ==
    IF ~inside(absolutePath, contentDir)
    THEN Respond(f, 403, ErrorBody("Can only edit content files"))
    ELSE IF ~IsStr(content) THEN Throw(f, TypeError("ERR_INVALID_ARG_TYPE"))
    ELSE AfterCall(writeFile(f, absolutePath, content.s), Success)

saveFields(f, filePath, content) ==
    IF ~IsStr(filePath) THEN Throw(f, TypeError("ERR_INVALID_ARG_TYPE"))
    ELSE saveAt(f, resolve(cwd, filePath.s), content)

saveBody(f, b) ==
    IF ~HasFields(b) THEN BodyError(f, b)
    ELSE saveFields(f, Get(b.val, "filePath"), Get(b.val, "content"))

saveTry(f, r) == saveBody(f, readJsonBody(r))

save(f, r) == Catch(saveTry(f, r))

(* POST /__dev-editor/create *)
allowedCollections == {"books", "games", "blog"}

\* shown is the filePath of the response
createAt(f, filePath, shown, frontmatter, body) ==
    IF existsSync(f, filePath) THEN Respond(f, 409, ErrorBody("File already exists"))
    ELSE IF frontmatter.t \in {"undefined", "null"} THEN Throw(f, TypeError("Object.entries"))
    ELSE AfterCall(writeFile(f, filePath,
                             MarkdownContent(frontmatterToYaml(frontmatter), body)),
                   Obj2("success", JBool(TRUE), "filePath", JStr(shown)))

createSlug(f, collection, safeSlug, frontmatter, body) ==
    IF safeSlug = "" THEN Respond(f, 400, ErrorBody("Invalid slug"))
    ELSE createAt(f, resolve(resolve(contentDir, collection), safeSlug \o ".md"),
                  "src/content/" \o collection \o "/" \o safeSlug \o ".md",
                  frontmatter, body)

\* a create that takes the collection as it was sent
createFieldsAnyCollection(f, collection, slug, frontmatter, body) ==
    IF ~IsStr(slug) THEN Throw(f, TypeError("toLowerCase"))
    ELSE createSlug(f, ToStr(collection), slugify(slug.s), frontmatter, body)

createFields(f, collection, slug, frontmatter, body) ==
    IF ~(IsStr(collection) /\ collection.s \in allowedCollections)
    THEN Respond(f, 400, ErrorBody("Invalid collection: " \o ToStr(collection)))
    ELSE IF ~IsStr(slug) THEN Throw(f, TypeError("toLowerCase"))
    ELSE createSlug(f, collection.s, slugify(slug.s), frontmatter, body)

createBody(f, b) ==
    IF ~HasFields(b) THEN BodyError(f, b)
    ELSE createFields(f, Get(b.val, "collection"), Get(b.val, "slug"),
                      Get(b.val, "frontmatter"), Get(b.val, "body"))

createTry(f, r) == createBody(f, readJsonBody(r))

create(f, r) == Catch(createTry(f, r))

(* POST /__dev-editor/upload and /__dev-editor/upload-meme; dir is        *)
(* galleryDir with urlDir 'gallery', or memesDir with urlDir 'memes'      *)
allowedTypes ==
    {"image/jpeg", "image/png", "image/webp", "image/gif",
     "image/heic", "image/heif"}

ImageExts == {"jpg", "jpeg", "png", "webp", "gif", "heic", "heif"}

\* safeFilename.match(/\.(jpg|jpeg|png|webp|gif|heic|heif)$/i)
HasImageExt(s) == \E e \in ImageExts : endsWith(toLowerCase(s), "." \o e)

\* Buffer.from(data, 'base64'), for the payloads of the requests; the
\* bytes are held as text
Base64Decode(s) ==
    CASE s = "aGk=" -> "hi"
      [] s = "SEVJQw==" -> "HEIC"
      [] s = "" -> ""

\* buffer.toString('base64')
Base64Encode(s) ==
    CASE s = "hi" -> "aGk="
      [] s = "JPEG" -> "SlBFRw=="
      [] s = "" -> ""

\* m is what mkdir(dir) returned
uploadInto(m, safeFilename, data, dir, urlDir) ==
    IF m.err # <<>> THEN Throw(m.fs, m.err[1])
    ELSE IF ~IsStr(data) THEN Throw(m.fs, TypeError("ERR_INVALID_ARG_TYPE"))
    ELSE AfterCall(writeFile(m.fs, resolve(dir, safeFilename), Base64Decode(data.s)),
                   Obj2("success", JBool(TRUE),
                        "path", JStr("/" \o urlDir \o "/" \o safeFilename)))

uploadNamed(f, safeFilename, data, dir, urlDir) ==
    IF safeFilename = "" \/ ~HasImageExt(safeFilename)
    THEN Respond(f, 400, ErrorBody("Invalid filename"))
    ELSE uploadInto(mkdir(f, dir), safeFilename, data, dir, urlDir)

\* an upload that stores the file under the name as it was sent
uploadFieldsRawName(f, filename, data, mimeType, dir, urlDir) ==
    IF Truthy(mimeType) /\ ~(IsStr(mimeType) /\ mimeType.s \in allowedTypes)
    THEN Respond(f, 400, ErrorBody("Invalid image type"))
    ELSE IF ~IsStr(filename) THEN Throw(f, TypeError("toLowerCase"))
    ELSE uploadNamed(f, filename.s, data, dir, urlDir)

uploadFields(f, filename, data, mimeType, dir, urlDir) ==
    IF Truthy(mimeType) /\ ~(IsStr(mimeType) /\ mimeType.s \in allowedTypes)
    THEN Respond(f, 400, ErrorBody("Invalid image type"))
    ELSE IF ~IsStr(filename) THEN Throw(f, TypeError("toLowerCase"))
    ELSE uploadNamed(f, sanitizeFilename(filename.s), data, dir, urlDir)

uploadBody(f, b, dir, urlDir) ==
    IF ~HasFields(b) THEN BodyError(f, b)
    ELSE uploadFields(f, Get(b.val, "filename"), Get(b.val, "data"),
                      Get(b.val, "mimeType"), dir, urlDir)

uploadTry(f, r, dir, urlDir) == uploadBody(f, readJsonBody(r), dir, urlDir)

upload(f, r, dir, urlDir) == Catch(uploadTry(f, r, dir, urlDir))

(* DELETE /__dev-editor/delete and /__dev-editor/delete-meme *)
deleteAt(f, absolutePath, dir) ==
    IF ~inside(absolutePath, dir) THEN Respond(f, 403, ErrorBody("Invalid path"))
    ELSE IF ~existsSync(f, absolutePath) THEN Respond(f, 404, ErrorBody("File not found"))
    ELSE AfterCall(unlink(f, absolutePath), Success)

\* a delete that resolves the path below public/ instead of its basename
deletePathRest(f, imagePath, dir, urlDir) ==
    IF ~IsStr(imagePath) THEN Throw(f, TypeError("startsWith"))
    ELSE IF ~startsWith(imagePath.s, "/" \o urlDir \o "/")
         THEN Respond(f, 403, ErrorBody("Can only delete images"))
    ELSE deleteAt(f, resolve(dirname(dir), "." \o imagePath.s), dir)

deletePath(f, imagePath, dir, urlDir) ==
    IF ~IsStr(imagePath) THEN Throw(f, TypeError("startsWith"))
    ELSE IF ~startsWith(imagePath.s, "/" \o urlDir \o "/")
         THEN Respond(f, 403,
                      ErrorBody(IF urlDir = "gallery" THEN "Can only delete gallery images"
                                ELSE "Can only delete meme images"))
    ELSE deleteAt(f, resolve(dir, basename(imagePath.s)), dir)

deleteBody(f, b, dir, urlDir) ==
    IF ~HasFields(b) THEN BodyError(f, b)
    ELSE deletePath(f, Get(b.val, "path"), dir, urlDir)

deleteTry(f, r, dir, urlDir) == deleteBody(f, readJsonBody(r), dir, urlDir)

delete(f, r, dir, urlDir) == Catch(deleteTry(f, r, dir, urlDir))

(* POST /__dev-editor/convert-heic *)
\* sharp(buffer).jpeg({ quality: 92 }).toBuffer(): the JPEG of an image,
\* and an error for bytes that are no image
sharpJpeg(bytes) ==
    IF bytes = "HEIC" THEN [err |-> <<>>, val |-> "JPEG"]
    ELSE [err |-> <<FsError("Input buffer contains unsupported image format")>>,
          val |-> ""]

convertDone(f, jpegBuffer) ==
    IF jpegBuffer.err # <<>> THEN Throw(f, jpegBuffer.err[1])
    ELSE Respond(f, 200,
                 Obj2("success", JBool(TRUE), "data", JStr(Base64Encode(jpegBuffer.val))))

convertData(f, data) ==
    IF ~IsStr(data) THEN Throw(f, TypeError("ERR_INVALID_ARG_TYPE"))
    ELSE convertDone(f, sharpJpeg(Base64Decode(data.s)))

convertBody(f, b) ==
    IF ~HasFields(b) THEN BodyError(f, b) ELSE convertData(f, Get(b.val, "data"))

convertHeicTry(f, r) == convertBody(f, readJsonBody(r))

convertHeic(f, r) == Catch(convertHeicTry(f, r))

(* GET /__dev-editor/list-images and /__dev-editor/list-memes *)
imageExtensions == {".jpg", ".jpeg", ".png", ".webp", ".gif", ".heic", ".heif"}

RECURSIVE SetToSeq(_)
\* the entries of a directory in some fixed order
SetToSeq(S) ==
    IF S = {} THEN <<>>
    ELSE <<CHOOSE y \in S : TRUE>> \o SetToSeq(S \ {CHOOSE y \in S : TRUE})

\* files.filter(f => imageExtensions.includes(path.extname(f).toLowerCase()))
Shown(files) == SelectSeq(files, LAMBDA n : toLowerCase(extname(n)) \in imageExtensions)

\* one entry of the listing; stats.size counts the characters of the
\* content, stats.mtime is left out (the model has no clock)
ImageEntry(f, dir, urlDir, filename) ==
    JObj(<< <<"filename", JStr(filename)>>,
            <<"path", JStr("/" \o urlDir \o "/" \o filename)>>,
            <<"size", JNum(Numeral(Len(f[resolve(dir, filename)].content)))>> >>)

Images(f, dir, urlDir, shown) ==
    [i \in 1..Len(shown) |-> ImageEntry(f, dir, urlDir, shown[i])]

\* m is what mkdir(dir) returned
listIn(m, dir, urlDir) ==
    IF m.err # <<>> THEN Throw(m.fs, m.err[1])
    ELSE Respond(m.fs, 200,
                 Obj1("images",
                      JArr(Images(m.fs, dir, urlDir,
                                  Shown(SetToSeq(readdir(m.fs, dir).val))))))

listTry(f, dir, urlDir) == listIn(mkdir(f, dir), dir, urlDir)

list(f, dir, urlDir) == Catch(listTry(f, dir, urlDir))

(* GET and POST /__dev-editor/gallery and /__dev-editor/memes *)
\* res.end(content) after readFile
configRead(c) == IF c.err # <<>> THEN Throw(c.fs, c.err[1]) ELSE RespondRaw(c.fs, c.val)

configGetTry(f, configPath) ==
    IF existsSync(f, configPath) THEN configRead(readFile(f, configPath))
    ELSE Respond(f, 200, Obj1("images", JArr(<<>>)))

configGet(f, configPath) == Catch(configGetTry(f, configPath))

\* w is what writeFile returned for the value
configStored(w, value) ==
    IF w.err # <<>> THEN Throw(w.fs, w.err[1])
    ELSE [Respond(w.fs, 200, Success) EXCEPT !.stored = <<value>>]

configPostBody(f, data, configPath) ==
    IF ~data.ok THEN Throw(f, SyntaxError("Unexpected token"))
    ELSE configStored(writeFile(f, configPath, JSONstringifyPretty(data.val)), data.val)

configPostTry(f, r, configPath) == configPostBody(f, readJsonBody(r), configPath)

configPost(f, r, configPath) == Catch(configPostTry(f, r, configPath))

\* // Unknown dev-editor endpoint
unknownEndpoint(f) == Respond(f, 404, ErrorBody("Unknown endpoint"))

\* m is what mkdir(dataDir) returned: a GET or a POST is served; any other
\* method falls through the remaining handlers, none of which has this URL,
\* to the unknown endpoint
configIn(m, r, configPath) ==
    IF m.err # <<>> THEN Throw(m.fs, m.err[1])
    ELSE IF r.method = "GET" THEN configGet(m.fs, configPath)
    ELSE IF r.method = "POST" THEN configPost(m.fs, r, configPath)
    ELSE unknownEndpoint(m.fs)

\* the block of a config URL: the data directory is made first, outside any
\* try and before the method is looked at
config(f, r, configPath) == configIn(mkdir(f, dataDir), r, configPath)

---------------------------------------------------------------------------
(* The middleware *)

EditorPrefix == "/__dev-editor/"
Url(name) == EditorPrefix \o name

\* req.url?.split('?')[0]
UrlPath(r) == Split(r.url, "?")[1]

\* url?.startsWith('/__dev-editor/'): the request is one of the editor's
IsEditorRequest(r) == startsWith(UrlPath(r), EditorPrefix)

\* url === '/__dev-editor/<name>'
UrlIs(r, name) == UrlPath(r) = Url(name)

\* an async function whose rejection nobody handles
NoOuterCatch(r) == r

\* (async () => { ... })().catch((err) => { 500 })
OuterCatch(r) == Catch(r)

\* return next()
next(f) ==
    [fs |-> f, out |-> <<>>, thrown |-> <<>>, failed |-> <<>>, passed |-> TRUE,
     stored |-> <<>>]

---------------------------------------------------------------------------
(* Requests *)

Req(url, method, body) == [url |-> url, method |-> method, body |-> body]

\* the text of a request body that holds the given fields
BodyOf(entries) == JSONstringify(JObj(entries))

Malformed == "{"

Field(k, v) == <<k, v>>

\* filePath values of save requests
SavePaths ==
    { "src/content/blog/x.md",
      "/w/src/content/blog/x.md",
      "src/content-evil/x.md",
      "../x.md",
      "/etc/x",
      "src/content/../data/gallery-config.json",
      "src/content/../../public/x.jpg",
      "src/content",
      "src/content/books/x.md",
      "" }

SaveText == JStr("hi")

SaveRequests ==
    {Req(Url("save"), "POST", BodyOf(<<Field("filePath", JStr(p)), Field("content", SaveText)>>)) :
        p \in SavePaths}
    \cup {Req(Url("save"), "POST", b) :
            b \in {Malformed, "null", BodyOf(<<Field("content", SaveText)>>),
                   BodyOf(<<Field("filePath", JNum("1")), Field("content", SaveText)>>),
                   BodyOf(<<Field("filePath", JStr("src/content/blog/x.md"))>>)}}
    \cup {Req(Url("save") \o "?x", "POST",
              BodyOf(<<Field("filePath", JStr("src/content/blog/x.md")),
                       Field("content", SaveText)>>))}

FmPlain == JObj(<<Field("title", JStr("hi"))>>)

CreateFields(fm) ==
    { <<Field("collection", JStr("blog")), Field("slug", JStr("x")),
        Field("frontmatter", fm), Field("body", JStr("hi"))>>,
      <<Field("collection", JStr("blog")), Field("slug", JStr("X/")),
        Field("frontmatter", fm), Field("body", JStr("hi"))>>,
      <<Field("collection", JStr("blog")), Field("slug", JStr("/_")),
        Field("frontmatter", fm)>>,
      <<Field("collection", JStr("blog")), Field("slug", JStr("")),
        Field("frontmatter", fm)>>,
      <<Field("collection", JStr("blog")), Field("frontmatter", fm)>>,
      <<Field("collection", JStr("blog")), Field("slug", JStr("y"))>>,
      <<Field("collection", JStr("books")), Field("slug", JStr("x")),
        Field("frontmatter", fm)>>,
      <<Field("collection", JStr("projects")), Field("slug", JStr("x")),
        Field("frontmatter", fm)>>,
      <<Field("collection", JStr("../data")), Field("slug", JStr("x")),
        Field("frontmatter", fm)>>,
      <<Field("slug", JStr("x")), Field("frontmatter", fm)>> }

CreateRequests ==
    {Req(Url("create"), "POST", BodyOf(e)) : e \in CreateFields(FmPlain)}
    \cup {Req(Url("create"), "POST", Malformed)}

\* front-matter values of create requests: strings, date strings, numbers,
\* booleans and arrays of strings
FmScalars ==
    { JStr("hi"), JStr("true"), JBool(TRUE), JStr("1"), JNum("1"), JStr("2024-01-02"),
      JStr("a: b"), JStr("a#b"), JStr("a\"b"), JStr("it's"), JStr("a\\b"), JStr("a\nb") }

FmArrays == { JArr(<<>>), JArr(<<JStr("a")>>), JArr(<<JStr("a"), JStr("b")>>) }

Frontmatters ==
    {JObj(<<>>)}
    \cup {JObj(<<Field("title", v)>>) : v \in FmScalars}
    \cup {JObj(<<Field("tags", v)>>) : v \in FmArrays}

YamlRequests ==
    {Req(Url("create"), "POST",
         BodyOf(<<Field("collection", JStr("blog")), Field("slug", JStr("x")),
                  Field("frontmatter", fm), Field("body", JStr("hi"))>>)) :
        fm \in Frontmatters}

\* filename values of upload requests: these are stored as x.jpg,
StoredNames == { "x.jpg", "X.JPG", "\\X.jpg", "x.jpg/" }

\* these are refused,
RefusedNames == { "x.txt", "xjpg", "/", "", "..", "jpg" }

\* and these are stored under other names
OtherNames == { "../x.jpg", ".jpg" }

UploadData == JStr("aGk=")

UploadFields(n) ==
    <<Field("filename", JStr(n)), Field("data", UploadData),
      Field("mimeType", JStr("image/jpeg"))>>

\* bodies of upload requests that store no file
RefusedUploads ==
    {BodyOf(UploadFields(n)) : n \in RefusedNames}
    \cup {BodyOf(<<Field("filename", JStr("x.jpg")), Field("data", UploadData),
                   Field("mimeType", m)>>) : m \in {JStr("text/plain"), JNum("1")}}
    \cup { BodyOf(<<Field("filename", JStr("x.jpg"))>>),
           BodyOf(<<Field("data", UploadData)>>),
           BodyOf(<<Field("filename", JNum("1")), Field("data", UploadData)>>),
           Malformed }

\* bodies of upload requests that store a file under one of the names
AcceptedUploads(names) ==
    {BodyOf(UploadFields(n)) : n \in names}
    \cup { BodyOf(<<Field("filename", JStr("x.jpg")), Field("data", UploadData)>>),
           BodyOf(<<Field("filename", JStr("x.jpg")), Field("data", UploadData),
                    Field("mimeType", JStr(""))>>) }

UploadRequests ==
    {Req(Url("upload"), "POST", b) : b \in RefusedUploads \cup AcceptedUploads(StoredNames)}

UploadMemeRequests ==
    {Req(Url("upload-meme"), "POST", b) :
        b \in RefusedUploads \cup AcceptedUploads(StoredNames)}

MoreUploadRequests ==
    {Req(Url(n), "POST", b) :
        n \in {"upload", "upload-meme"}, b \in AcceptedUploads(OtherNames)}

\* path values of delete requests, d being 'gallery' or 'memes' and o the
\* other one
DeletePaths(d, o) ==
    {"/" \o d \o t :
        t \in {"/x.jpg", "/.jpg", "/..-x.jpg", "/../../src/content/blog/x.md",
               "/../" \o d \o "-old/x.jpg", "/../x.jpg", "/..", "/.", "/", "/sub",
               "/sub/", "", "-old/x.jpg"}}
    \cup {"/" \o o \o "/x.jpg", "x.jpg", "", "/w/public/" \o d \o "/x.jpg"}

DeleteBodies(d, o) ==
    {BodyOf(<<Field("path", JStr(p))>>) : p \in DeletePaths(d, o)}
    \cup {BodyOf(<<>>), "", "null", BodyOf(<<Field("path", JNum("1"))>>)}

DeleteRequests == {Req(Url("delete"), "DELETE", b) : b \in DeleteBodies("gallery", "memes")}

DeleteMemeRequests ==
    {Req(Url("delete-meme"), "DELETE", b) : b \in DeleteBodies("memes", "gallery")}

ConvertRequests ==
    {Req(Url("convert-heic"), "POST", b) :
        b \in {BodyOf(<<Field("data", JStr("SEVJQw=="))>>),
               BodyOf(<<Field("data", JStr("aGk="))>>),
               BodyOf(<<>>), Malformed}}

ListRequests == {Req(Url("list-images"), "GET", ""), Req(Url("list-memes"), "GET", "")}

\* bodies of config POST requests
ConfigValues == { JObj(<<Field("images", JArr(<<JStr("x.jpg")>>))>>) }

MoreConfigValues ==
    { JObj(<<Field("images", JArr(<<>>))>>),
      JObj(<<Field("images", JArr(<<JStr("x.jpg"), JNull>>)),
             Field("n", JNum("2")), Field("ok", JBool(FALSE))>>),
      JStr("\"\\\n:"),
      JNull }

\* the requests of a config URL that write nothing
ConfigReads(n) ==
    {Req(Url(n), m, "") : m \in {"GET", "POST", "DELETE"}}
    \cup {Req(Url(n), "POST", Malformed)}

ConfigWrites(n, values) == {Req(Url(n), "POST", JSONstringify(v)) : v \in values}

ConfigRequests ==
    ConfigReads("gallery") \cup ConfigReads("memes")
    \cup ConfigWrites("gallery", ConfigValues) \cup ConfigWrites("memes", ConfigValues)

MoreConfigRequests ==
    ConfigWrites("gallery", MoreConfigValues) \cup ConfigWrites("memes", MoreConfigValues)

\* requests that match no handler
OtherRequests ==
    {Req(Url(n), "PUT", "") :
        n \in {"nope", "save", "create", "upload", "delete", "convert-heic",
               "list-images", "gallery", "memes", "upload-meme", "delete-meme",
               "list-memes"}}
    \cup {Req(Url("delete"), "POST", ""), Req(Url("list-images"), "POST", ""),
          Req(Url("save"), "GET", ""),
          Req(EditorPrefix, "GET", ""),
          Req(Url("save") \o "/", "POST", ""),
          Req(Url("nope") \o "?x", "GET", "")}

\* requests of the site itself, outside /__dev-editor/
SiteRequests ==
    {Req(u, "GET", "") :
        u \in {"/", "/blog", "/__dev-editor", "/__dev-editorx/save",
               "/x/__dev-editor/save"}}

Requests ==
    SaveRequests \cup CreateRequests \cup UploadRequests \cup UploadMemeRequests
    \cup DeleteRequests \cup DeleteMemeRequests \cup ConvertRequests \cup ListRequests
    \cup ConfigRequests \cup OtherRequests \cup SiteRequests

---------------------------------------------------------------------------
(* Initial filesystems *)

Tree(dirs, files) ==
    [p \in {"/"} \cup dirs \cup DOMAIN files |->
        IF p \in DOMAIN files THEN FileNode(files[p]) ELSE DirNode]

BaseDirs ==
    {cwd, resolve(cwd, "src"), contentDir, resolve(contentDir, "blog")}

publicDir == resolve(cwd, "public")

\* a fresh checkout: no data directory, no public directory
FreshFs == Tree(BaseDirs, <<>>)

\* a site in use: images, a sibling directory of each allow-listed
\* directory, and a sub-directory of each image directory
UsedFs ==
    Tree(BaseDirs \cup
         {resolve(cwd, "src/content-evil"), dataDir, publicDir, galleryDir, memesDir,
          resolve(galleryDir, "sub"), resolve(memesDir, "sub"),
          resolve(publicDir, "gallery-old"), resolve(publicDir, "memes-old")},
         (resolve(galleryDir, "x.jpg") :> "hi")
         @@ (resolve(memesDir, "x.jpg") :> "hi")
         @@ (resolve(publicDir, "x.jpg") :> "hi")
         @@ (resolve(publicDir, "gallery-old/x.jpg") :> "hi")
         @@ (resolve(publicDir, "memes-old/x.jpg") :> "hi"))

\* a checkout where src/data and public are regular files, so that no
\* directory can be made there
BlockedFs == Tree(BaseDirs, (dataDir :> "hi") @@ (publicDir :> "hi"))

InitialFilesystems == {FreshFs, UsedFs, BlockedFs}

NoRequest == Req("", "", "")

\* the callers whose create requests can be in flight together
Callers == 1..MaxCalls

\* a caller with no request in flight
IdleCall == [pc |-> "idle", req |-> NoRequest, write |-> <<>>, reply |-> <<>>, out |-> <<>>]

InitServer ==
    /\ fs \in InitialFilesystems
    /\ phase = "idle"
    /\ req = NoRequest
    /\ res = <<>>
    /\ failed = <<>>
    /\ passed = FALSE
    /\ prevFs = fs
    /\ posted = [gallery |-> <<>>, memes |-> <<>>]
    /\ uploads = {}
    /\ calls = [i \in Callers |-> IdleCall]

IdleSan == sanIn = "" /\ sanFn = "none" /\ sanOut = ""

Init == InitServer /\ IdleSan

\* a request of the set R arrives: the middleware is called with it
Receive(R) ==
    /\ phase = "idle"
    /\ phase' = "pending"
    /\ req' \in R
    /\ UNCHANGED <<fs, res, failed, passed, prevFs, posted, uploads, sanVars, raceVars>>

\* the path that a successful upload has returned
Returned(h) == Get(JSONparse(h.out[1].body).val, "path").s

\* the paths, below /<urlDir>/, of the files that h has removed from f
Removed(f, h, urlDir) == {"/" \o urlDir \o "/" \o basename(p) : p \in DOMAIN f \ DOMAIN h.fs}

\* the uploads after the request r was handled on f with outcome h: a
\* successful upload adds the path it returned, a successful delete takes
\* away the path of the file it removed
Uploads(u, r, f, h) ==
    IF Len(h.out) # 1 \/ h.out[1].status # 200 THEN u
    ELSE IF UrlIs(r, "upload") \/ UrlIs(r, "upload-meme") THEN u \cup {Returned(h)}
    ELSE IF UrlIs(r, "delete") THEN u \ Removed(f, h, "gallery")
    ELSE IF UrlIs(r, "delete-meme") THEN u \ Removed(f, h, "memes")
    ELSE u

\* the request has been handled with outcome h
Apply(h) ==
    /\ phase' = "done"
    /\ fs' = h.fs
    /\ res' = h.out
    /\ failed' = h.failed
    /\ passed' = h.passed
    /\ prevFs' = fs
    /\ posted' = IF h.stored = <<>> THEN posted
                 ELSE IF UrlIs(req, "gallery") THEN [posted EXCEPT !.gallery = h.stored]
                 ELSE [posted EXCEPT !.memes = h.stored]
    /\ uploads' = Uploads(uploads, req, fs, h)
    /\ UNCHANGED <<req, sanVars, raceVars>>

\* the middleware is entered with the pending request, one of the editor's
Editor == phase = "pending" /\ IsEditorRequest(req)

PassOn == phase = "pending" /\ ~IsEditorRequest(req) /\ Apply(next(fs))

Save == Editor /\ UrlIs(req, "save") /\ req.method = "POST" /\ Apply(OuterCatch(save(fs, req)))

Create ==
    Editor /\ UrlIs(req, "create") /\ req.method = "POST" /\ Apply(OuterCatch(create(fs, req)))

Upload ==
    /\ Editor /\ UrlIs(req, "upload") /\ req.method = "POST"
    /\ Apply(OuterCatch(upload(fs, req, galleryDir, "gallery")))

Delete ==
    /\ Editor /\ UrlIs(req, "delete") /\ req.method = "DELETE"
    /\ Apply(OuterCatch(delete(fs, req, galleryDir, "gallery")))

ConvertHeic ==
    /\ Editor /\ UrlIs(req, "convert-heic") /\ req.method = "POST"
    /\ Apply(OuterCatch(convertHeic(fs, req)))

ListImages ==
    /\ Editor /\ UrlIs(req, "list-images") /\ req.method = "GET"
    /\ Apply(OuterCatch(list(fs, galleryDir, "gallery")))

GalleryConfig ==
    Editor /\ UrlIs(req, "gallery") /\ Apply(OuterCatch(config(fs, req, galleryConfigPath)))

MemesConfig ==
    Editor /\ UrlIs(req, "memes") /\ Apply(OuterCatch(config(fs, req, memesConfigPath)))

UploadMeme ==
    /\ Editor /\ UrlIs(req, "upload-meme") /\ req.method = "POST"
    /\ Apply(OuterCatch(upload(fs, req, memesDir, "memes")))

DeleteMeme ==
    /\ Editor /\ UrlIs(req, "delete-meme") /\ req.method = "DELETE"
    /\ Apply(OuterCatch(delete(fs, req, memesDir, "memes")))

ListMemes ==
    /\ Editor /\ UrlIs(req, "list-memes") /\ req.method = "GET"
    /\ Apply(OuterCatch(list(fs, memesDir, "memes")))

\* the (path, method) pairs that have a handler of their own
Routes ==
    { <<"save", "POST">>, <<"create", "POST">>, <<"upload", "POST">>,
      <<"delete", "DELETE">>, <<"convert-heic", "POST">>, <<"list-images", "GET">>,
      <<"upload-meme", "POST">>, <<"delete-meme", "DELETE">>, <<"list-memes", "GET">> }

\* no block of the chain returns for the request: it reaches the end
UnknownEndpoint ==
    /\ Editor
    /\ ~\E rt \in Routes : UrlIs(req, rt[1]) /\ req.method = rt[2]
    /\ ~UrlIs(req, "gallery") /\ ~UrlIs(req, "memes")
    /\ Apply(OuterCatch(unknownEndpoint(fs)))

\* the response has been sent; the middleware waits for the next request
Finish ==
    /\ phase = "done"
    /\ phase' = "idle"
    /\ req' = NoRequest
    /\ res' = <<>>
    /\ failed' = <<>>
    /\ passed' = FALSE
    /\ prevFs' = fs
    /\ UNCHANGED <<fs, posted, uploads, sanVars, raceVars>>

Handlers ==
    \/ Save \/ Create \/ Upload \/ Delete \/ ConvertHeic \/ ListImages
    \/ GalleryConfig \/ MemesConfig \/ UploadMeme \/ DeleteMeme \/ ListMemes
    \/ UnknownEndpoint \/ PassOn

Arrive == Receive(Requests)

Next == Arrive \/ Handlers \/ Finish

Spec == Init /\ [][Next]_vars

(* The handlers of the content files, with every save and create request *)
ArriveContent == Receive(SaveRequests \cup CreateRequests)

NextContent == ArriveContent \/ Save \/ Create \/ Finish

SpecContent == Init /\ [][NextContent]_vars

(* The create handler, with every front matter *)
ArriveYaml == Receive(YamlRequests)

NextYaml == ArriveYaml \/ Create \/ Finish

SpecYaml == Init /\ [][NextYaml]_vars

(* The handlers of the images, with every upload, delete and list request *)
ArriveImages ==
    Receive(UploadRequests \cup UploadMemeRequests \cup MoreUploadRequests
            \cup DeleteRequests \cup DeleteMemeRequests \cup ListRequests)

NextImages ==
    \/ ArriveImages \/ Upload \/ Delete \/ ListImages
    \/ UploadMeme \/ DeleteMeme \/ ListMemes \/ Finish

SpecImages == Init /\ [][NextImages]_vars

(* The handlers of the two configs, with every config request *)
ArriveConfig == Receive(ConfigRequests \cup MoreConfigRequests)

NextConfig == ArriveConfig \/ GalleryConfig \/ MemesConfig \/ Finish

SpecConfig == Init /\ [][NextConfig]_vars


---------------------------------------------------------------------------
(* Create requests in flight together.  The handler of each runs in steps: *)
(* the request arrives and its body is read (await readJsonBody); the      *)
(* body is checked, the path made and looked up with existsSync, and       *)
(* writeFile called, all in one turn of the event loop; the write is       *)
(* carried out (await fs.promises.writeFile); the response is sent.  The   *)
(* steps of different requests interleave at the awaits.                   *)

\* the create requests of the callers: two slugs that sanitize to x, with
\* different bodies, another slug, and a collection that is refused
RaceRequests ==
    {Req(Url("create"), "POST",
         BodyOf(<<Field("collection", JStr(c[1])), Field("slug", JStr(c[2])),
                  Field("frontmatter", FmPlain), Field("body", JStr(c[3]))>>)) :
        c \in {<<"blog", "x", "hi">>, <<"blog", "X/", "yo">>, <<"blog", "y", "hi">>,
               <<"projects", "x", "hi">>}}

\* the path that is in g and not in f
Added(f, g) == CHOOSE p \in DOMAIN g : p \notin DOMAIN f

\* h is what the create handler does on f when nothing interleaves.  Up to
\* its await of writeFile the handler has either answered (a write that
\* fails changes nothing, whenever it is carried out) or called for the
\* write of a file that f does not have, to answer when it is done
createCalled(f, h) ==
    IF h.fs = f THEN [write |-> <<>>, reply |-> h.out]
    ELSE [write |-> <<[path |-> Added(f, h.fs), content |-> h.fs[Added(f, h.fs)].content]>>,
          reply |-> h.out]

\* the caller after the turn in which its body was checked
Checked(c, k) ==
    IF k.write = <<>> THEN [c EXCEPT !.pc = "done", !.out = k.reply]
    ELSE [c EXCEPT !.pc = "writing", !.write = k.write, !.reply = k.reply]

\* the caller after its write w was carried out
Wrote(c, w) ==
    IF w.err = <<>> THEN [c EXCEPT !.pc = "written"]
    ELSE [c EXCEPT !.pc = "written", !.reply = Catch(Throw(w.fs, w.err[1])).out]

\* a create request of caller i arrives
CreateReceive(i) ==
    /\ calls[i].pc = "idle"
    /\ \E r \in RaceRequests : calls' = [calls EXCEPT ![i] = [IdleCall EXCEPT !.pc = "reading", !.req = r]]
    /\ UNCHANGED <<serverVars, sanVars>>

\* its body has been read: the handler runs up to the call of writeFile
CreateCheck(i) ==
    /\ calls[i].pc = "reading"
    /\ calls' = [calls EXCEPT ![i] = Checked(calls[i], createCalled(fs, create(fs, calls[i].req)))]
    /\ UNCHANGED <<serverVars, sanVars>>

\* its write is carried out
CreateWrite(i) ==
    /\ calls[i].pc = "writing"
    /\ fs' = writeFile(fs, calls[i].write[1].path, calls[i].write[1].content).fs
    /\ calls' = [calls EXCEPT ![i] =
                    Wrote(calls[i], writeFile(fs, calls[i].write[1].path,
                                              calls[i].write[1].content))]
    /\ UNCHANGED <<phase, req, res, failed, passed, prevFs, posted, uploads, sanVars>>

\* its response is sent
CreateRespond(i) ==
    /\ calls[i].pc = "written"
    /\ calls' = [calls EXCEPT ![i].pc = "done", ![i].out = calls[i].reply]
    /\ UNCHANGED <<serverVars, sanVars>>

NextRace ==
    \E i \in Callers : CreateReceive(i) \/ CreateCheck(i) \/ CreateWrite(i) \/ CreateRespond(i)

SpecRace == Init /\ [][NextRace]_vars
---------------------------------------------------------------------------
(* The sanitization functions on their own: every string over SanAlphabet *)
(* of at most MaxLen characters is handed to each function.               *)

SanAlphabet == {"a", "Z", "1", ".", "-", "_", "/"}

RECURSIVE StringsOfLen(_, _)
StringsOfLen(A, n) ==
    IF n = 0 THEN {""} ELSE {s \o c : s \in StringsOfLen(A, n - 1), c \in A}

Strings(A, n) == UNION {StringsOfLen(A, k) : k \in 0..n}

InitSan ==
    /\ sanIn \in Strings(SanAlphabet, MaxLen)
    /\ sanFn = "none"
    /\ sanOut = ""
    /\ InitServer
    /\ fs = FreshFs

CallSanitizeFilename ==
    /\ sanFn = "none"
    /\ sanFn' = "sanitizeFilename"
    /\ sanOut' = sanitizeFilename(sanIn)
    /\ UNCHANGED <<sanIn, serverVars, raceVars>>

CallSlugify ==
    /\ sanFn = "none"
    /\ sanFn' = "slugify"
    /\ sanOut' = slugify(sanIn)
    /\ UNCHANGED <<sanIn, serverVars, raceVars>>

NextSan == CallSanitizeFilename \/ CallSlugify

SpecSan == InitSan /\ [][NextSan]_vars

---------------------------------------------------------------------------
(* The claims.  They are stated of the state in which a request has been   *)
(* handled: req is the request, res the responses sent for it, prevFs the  *)
(* filesystem before it and fs the filesystem after it.                    *)

\* the request to the given endpoint has been handled
Handled(name, method) == phase = "done" /\ UrlIs(req, name) /\ req.method = method

\* the body of the request is JSON and has fields
HasBody == HasFields(readJsonBody(req))

\* the field of the request's body; undefined when it is absent
Sent(field) == IF HasBody THEN Get(readJsonBody(req).val, field) ELSE Undefined

\* one response was sent and it has the status
Answered(status) == Len(res) = 1 /\ res[1].status = status

(* C1: a save request with a filePath string either resolves to the       *)
(* content directory or a descendant of it, or is answered 403 and writes  *)
(* no file.                                                                *)
C1_SaveContained ==
    (Handled("save", "POST") /\ IsStr(Sent("filePath"))) =>
        \/ IsInside(resolve(cwd, Sent("filePath").s), contentDir)
        \/ (Answered(403) /\ fs = prevFs)

(* C2: both sanitization functions are idempotent: applying the function  *)
(* again to what it returned returns the same string.                     *)
C2_Idempotent ==
    /\ sanFn = "sanitizeFilename" => sanitizeFilename(sanOut) = sanOut
    /\ sanFn = "slugify" => slugify(sanOut) = sanOut

\* a string with a run of disallowed characters at its start was sanitized
\* to a non-empty string
C2_Witness ==
    /\ sanFn = "sanitizeFilename"
    /\ startsWith(sanIn, "/_")
    /\ sanOut # "" /\ sanOut # sanIn

\* s neither begins nor ends with '-' nor holds two '-' in a row
NoStrayDash(s) ==
    /\ ~startsWith(s, "-") /\ ~endsWith(s, "-")
    /\ \A i \in 1..Len(s) : i > 1 => SubSeq(s, i - 1, i) # "--"

(* C3: the result of sanitizeFilename holds only a-z, 0-9, '.' and '-',   *)
(* the result of slugify only a-z, 0-9 and '-', and neither result begins *)
(* with '-', ends with '-' or holds two '-' in a row.                     *)
C3_Stripped ==
    /\ sanFn = "sanitizeFilename" =>
          /\ Chars(sanOut) \subseteq LowerCase \cup Digit \cup {".", "-"}
          /\ NoStrayDash(sanOut)
    /\ sanFn = "slugify" =>
          /\ Chars(sanOut) \subseteq LowerCase \cup Digit \cup {"-"}
          /\ NoStrayDash(sanOut)

\* slugify was handed upper-case letters, dots and slashes and returned a
\* slug with a '-' inside
C3_Witness ==
    /\ sanFn = "slugify"
    /\ {"Z", ".", "/"} \subseteq Chars(sanIn)
    /\ includes(sanOut, "-")

\* the file that the create request has written
Created == CHOOSE p \in DOMAIN fs : p \notin DOMAIN prevFs

\* the text between the '---' lines of a Markdown file
YamlBlock(content) ==
    SubSeq(content, 5,
           (CHOOSE k \in 5..Len(content) :
               /\ HasAt(content, k, "\n---\n")
               /\ \A j \in 5..(k - 1) : ~HasAt(content, j, "\n---\n")) - 1)

(* C4: parsing the YAML block of a created file yields the front matter   *)
(* of the request, with the same keys and the same values of the same     *)
(* types.  Whatever the parser, it yields one object for one block, so the *)
(* block that was written is the block of no other front matter.           *)
C4_RoundTrip ==
    (Handled("create", "POST") /\ Answered(200)) =>
        \A g \in Frontmatters :
            frontmatterToYaml(g) = YamlBlock(fs[Created].content) => g = Sent("frontmatter")

\* the (path, method) pairs that are defined
Defined ==
    Routes \cup {<<n, m>> : n \in {"gallery", "memes"}, m \in {"GET", "POST"}}

(* C5: a request under /__dev-editor/ that matches no defined (path,      *)
(* method) pair is answered 404 with {error: 'Unknown endpoint'}.          *)
C5_UnknownIs404 ==
    (/\ phase = "done"
     /\ IsEditorRequest(req)
     /\ ~\E rt \in Defined : UrlIs(req, rt[1]) /\ req.method = rt[2]) =>
        res = <<Response(404, ErrorBody("Unknown endpoint"))>>

(* C6: every request under /__dev-editor/ is answered exactly once, and   *)
(* when a step of its handling threw or rejected, the one response has     *)
(* status 500 and the body {error: String(err)}.                           *)
C6_FailureIs500 ==
    (phase = "done" /\ IsEditorRequest(req)) =>
        /\ Len(res) = 1
        /\ failed # <<>> => res[1] = Response(500, ErrorBody(String(failed[1])))

\* the data directory could not be made for a config request, which was
\* answered 500
C6_Witness ==
    /\ phase = "done"
    /\ UrlIs(req, "gallery") \/ UrlIs(req, "memes")
    /\ mkdir(prevFs, dataDir).err # <<>>
    /\ failed = mkdir(prevFs, dataDir).err
    /\ Answered(500)

\* the field is absent from a body that has fields
Absent(field) == HasBody /\ Sent(field) = Undefined

\* the upload request is one that the claim has answered 400
BadUpload ==
    \/ Truthy(Sent("mimeType"))
       /\ ~(IsStr(Sent("mimeType")) /\ Sent("mimeType").s \in allowedTypes)
    \/ Absent("filename")
    \/ /\ IsStr(Sent("filename"))
       /\ \/ sanitizeFilename(Sent("filename").s) = ""
          \/ ~\E e \in imageExtensions : endsWith(sanitizeFilename(Sent("filename").s), e)

\* the path of the delete request passes the checks of the directory
GoodDelete(dir, urlDir) ==
    /\ IsStr(Sent("path"))
    /\ startsWith(Sent("path").s, "/" \o urlDir \o "/")
    /\ IsInside(resolve(dir, basename(Sent("path").s)), dir)

\* the delete request is answered as the claim has it
DeleteAnswered(dir, urlDir) ==
    /\ Absent("path") \/ (IsStr(Sent("path")) /\ ~GoodDelete(dir, urlDir)) => Answered(403)
    /\ (/\ GoodDelete(dir, urlDir)
        /\ ~existsSync(prevFs, resolve(dir, basename(Sent("path").s)))) => Answered(404)

(* C7: a create request with a collection outside the allow-list, or with *)
(* a slug that is absent or sanitizes to '', is answered 400, and so is an *)
(* upload with a disallowed mimeType or a filename that is absent,         *)
(* sanitizes to '' or lacks an image extension; a save or delete request   *)
(* whose path is absent or fails the directory check is answered 403; a    *)
(* delete request for a file that does not exist is answered 404.          *)
C7_ExplicitStatus ==
    /\ (/\ Handled("create", "POST")
        /\ HasBody
        /\ \/ ~(IsStr(Sent("collection")) /\ Sent("collection").s \in allowedCollections)
           \/ Absent("slug")
           \/ IsStr(Sent("slug")) /\ slugify(Sent("slug").s) = "") => Answered(400)
    /\ (Handled("upload", "POST") \/ Handled("upload-meme", "POST")) /\ HasBody /\ BadUpload
          => Answered(400)
    /\ (/\ Handled("save", "POST")
        /\ \/ Absent("filePath")
           \/ /\ IsStr(Sent("filePath"))
              /\ ~IsInside(resolve(cwd, Sent("filePath").s), contentDir)) => Answered(403)
    /\ Handled("delete", "DELETE") => DeleteAnswered(galleryDir, "gallery")
    /\ Handled("delete-meme", "DELETE") => DeleteAnswered(memesDir, "memes")

\* the GET request of a config endpoint
ConfigGet(name) == Req(Url(name), "GET", "")

\* the config endpoint of the given name, with the config file at the path
ConfigRoundTrip(name, configPath, other, otherPath) ==
    /\ (Handled(name, "GET") /\ posted[name] # <<>>) =>
          /\ Len(res) = 1
          /\ JSONparse(res[1].body) = Parsed(posted[name][1], Len(res[1].body) + 1)
    /\ (Handled(name, "GET") /\ posted[name] = <<>> /\ ~existsSync(prevFs, configPath)) =>
          res = <<Response(200, Obj1("images", JArr(<<>>)))>>
    /\ Handled(name, "POST") =>
          config(fs, ConfigGet(other), otherPath).out
              = config(prevFs, ConfigGet(other), otherPath).out

(* C8: after a successful POST of D to a config endpoint, a GET of that   *)
(* endpoint returns a body that parses to D, until the next successful     *)
(* POST to it; a GET before any POST, the config file absent, returns      *)
(* {images: []}; a POST to one endpoint does not change what a GET of the  *)
(* other returns.                                                          *)
C8_ConfigRoundTrip ==
    /\ ConfigRoundTrip("gallery", galleryConfigPath, "memes", memesConfigPath)
    /\ ConfigRoundTrip("memes", memesConfigPath, "gallery", galleryConfigPath)

\* an upload into dir that was answered 200 has written the file of the
\* sanitized name there, and nothing else
UploadContained(dir, urlDir) ==
    /\ IsStr(Sent("filename"))
    /\ \E e \in imageExtensions : endsWith(sanitizeFilename(Sent("filename").s), e)
    /\ ~includes(sanitizeFilename(Sent("filename").s), "/")
    /\ sanitizeFilename(Sent("filename").s) \notin {"", ".", ".."}
    /\ IsFile(fs, dir \o "/" \o sanitizeFilename(Sent("filename").s))
    /\ \A p \in Files(fs) :
          p # dir \o "/" \o sanitizeFilename(Sent("filename").s)
              => p \in Files(prevFs) /\ fs[p] = prevFs[p]
    /\ Files(prevFs) \subseteq Files(fs)
    /\ res = <<Response(200, Obj2("success", JBool(TRUE),
                                  "path", JStr("/" \o urlDir \o "/"
                                               \o sanitizeFilename(Sent("filename").s))))>>

(* C9: a successful upload writes exactly one file, a direct child of     *)
(* public/gallery (public/memes for upload-meme) whose name is             *)
(* sanitizeFilename(filename) and ends in an image extension, and returns  *)
(* the path /gallery/<name> (/memes/<name>).                               *)
C9_UploadContained ==
    /\ (Handled("upload", "POST") /\ Answered(200)) => UploadContained(galleryDir, "gallery")
    /\ (Handled("upload-meme", "POST") /\ Answered(200)) => UploadContained(memesDir, "memes")

\* a name with a '..' segment was uploaded and stored inside the gallery
C9_Witness ==
    /\ Handled("upload", "POST")
    /\ Sent("filename") = JStr("../x.jpg")
    /\ Answered(200)
    /\ IsFile(fs, galleryDir \o "/..-x.jpg")
    /\ ~IsFile(prevFs, galleryDir \o "/..-x.jpg")

\* a delete in dir removes at most regular files that are direct children
\* of dir, changes nothing else, and answers 403 to a path without the
\* prefix
DeleteContained(dir, urlDir) ==
    /\ \A p \in DOMAIN prevFs \ DOMAIN fs : IsFile(prevFs, p) /\ dirname(p) = dir
    /\ \A p \in DOMAIN fs : p \in DOMAIN prevFs /\ fs[p] = prevFs[p]
    /\ (IsStr(Sent("path")) /\ ~startsWith(Sent("path").s, "/" \o urlDir \o "/"))
          => (Answered(403) /\ fs = prevFs)

(* C10: a delete request removes nothing but a regular file that is a     *)
(* direct child of public/gallery (public/memes for delete-meme), never a  *)
(* file outside it nor the directory itself, and a path that does not      *)
(* start with /gallery/ (/memes/) is answered 403.                         *)
C10_DeleteContained ==
    /\ Handled("delete", "DELETE") => DeleteContained(galleryDir, "gallery")
    /\ Handled("delete-meme", "DELETE") => DeleteContained(memesDir, "memes")

\* a path with '..' segments that names a file of a sibling directory has
\* removed the file of that name in the gallery, and not the sibling's
C10_Witness ==
    /\ Handled("delete", "DELETE")
    /\ Sent("path") = JStr("/gallery/../gallery-old/x.jpg")
    /\ Answered(200)
    /\ IsFile(prevFs, galleryDir \o "/x.jpg")
    /\ ~existsSync(fs, galleryDir \o "/x.jpg")
    /\ IsFile(fs, publicDir \o "/gallery-old/x.jpg")

\* a create that was answered 200 has written the file of the collection
\* and the sanitized slug, and nothing else, and has returned its path
CreateContained(collection, slug) ==
    /\ IsStr(collection) /\ collection.s \in {"books", "games", "blog"}
    /\ IsStr(slug) /\ slugify(slug.s) # ""
    /\ IsFile(fs, contentDir \o "/" \o collection.s \o "/" \o slugify(slug.s) \o ".md")
    /\ \A p \in Files(fs) :
          p # contentDir \o "/" \o collection.s \o "/" \o slugify(slug.s) \o ".md"
              => p \in Files(prevFs) /\ fs[p] = prevFs[p]
    /\ Files(prevFs) \subseteq Files(fs)
    /\ res = <<Response(200, Obj2("success", JBool(TRUE),
                                  "filePath", JStr("src/content/" \o collection.s \o "/"
                                                   \o slugify(slug.s) \o ".md")))>>

(* C11: a successful create writes exactly one file, at                   *)
(* src/content/<collection>/<slugify(slug)>.md with the collection one of  *)
(* 'books', 'games', 'blog' and the sanitized slug not empty, and returns  *)
(* that path; a collection outside the list is answered 400 and nothing is *)
(* written.                                                                *)
C11_CreateContained ==
    /\ (Handled("create", "POST") /\ Answered(200)) =>
          CreateContained(Sent("collection"), Sent("slug"))
    /\ (/\ Handled("create", "POST")
        /\ HasBody
        /\ ~(/\ IsStr(Sent("collection"))
             /\ Sent("collection").s \in {"books", "games", "blog"})) =>
          (Answered(400) /\ fs = prevFs)

\* a slug with an upper-case letter and a '/' has made the file x.md of the
\* blog collection
C11_Witness ==
    /\ Handled("create", "POST")
    /\ Sent("slug") = JStr("X/")
    /\ Answered(200)
    /\ IsFile(fs, contentDir \o "/blog/x.md")
    /\ ~existsSync(prevFs, contentDir \o "/blog/x.md")

\* the file that the create request r resolves to
TargetOf(r) ==
    contentDir \o "/" \o Get(readJsonBody(r).val, "collection").s
    \o "/" \o slugify(Get(readJsonBody(r).val, "slug").s) \o ".md"

\* caller i has been answered with the status
CallAnswered(i, status) ==
    calls[i].pc = "done" /\ Len(calls[i].out) = 1 /\ calls[i].out[1].status = status

(* C12: under every interleaving of create requests, at most one request  *)
(* that resolves to a file is answered with success, every other request   *)
(* that resolves to it is answered 409, and the file holds what the        *)
(* successful request wrote; slugs that sanitize to the same value resolve *)
(* to the same file.                                                       *)
C12_NoOverwrite ==
    \A i \in Callers :
        CallAnswered(i, 200) =>
            /\ fs[TargetOf(calls[i].req)].content = calls[i].write[1].content
            /\ \A j \in Callers \ {i} :
                  (calls[j].pc = "done" /\ TargetOf(calls[j].req) = TargetOf(calls[i].req))
                      => CallAnswered(j, 409)

\* the images of the list response
Listing == Get(JSONparse(res[1].body).val, "images").items

\* the list response has an entry with the filename and the path
Lists(filename, path) ==
    \E k \in 1..Len(Listing) :
        Get(Listing[k], "filename") = JStr(filename) /\ Get(Listing[k], "path") = JStr(path)

\* a list response for dir has an entry for every path that an upload has
\* returned and no delete has removed since, and none for a file that is
\* not in dir, so none for one that a delete has removed
StaysListed(dir, urlDir) ==
    /\ \A p \in uploads :
          startsWith(p, "/" \o urlDir \o "/") =>
              (Answered(200) /\ Lists(SubSeq(p, Len(urlDir) + 3, Len(p)), p))
    /\ Answered(200) =>
          \A k \in 1..Len(Listing) :
              /\ IsStr(Get(Listing[k], "filename"))
              /\ IsFile(fs, dir \o "/" \o Get(Listing[k], "filename").s)
              /\ Get(Listing[k], "path")
                     = JStr("/" \o urlDir \o "/" \o Get(Listing[k], "filename").s)

(* C13: after an upload has answered success with the path                *)
(* /gallery/<name>, every later list-images response has an entry with     *)
(* filename <name> and that path, until a delete of it answers success,    *)
(* after which no list-images response has it unless it is uploaded again; *)
(* the same for upload-meme, list-memes and delete-meme.                   *)
C13_StaysListed ==
    /\ Handled("list-images", "GET") => StaysListed(galleryDir, "gallery")
    /\ Handled("list-memes", "GET") => StaysListed(memesDir, "memes")

\* the regular files of f under src/content, src/data, public/gallery and
\* public/memes
Kept(f) ==
    {p \in Files(f) : \E d \in {contentDir, dataDir, galleryDir, memesDir} : IsInside(p, d)}

(* C14: a request under /__dev-editor/ that is answered 400, 403, 404 or  *)
(* 409 leaves the regular files under src/content, src/data,               *)
(* public/gallery and public/memes, and the content of each, as they were. *)
C14_RejectedChangesNoFile ==
    (/\ phase = "done"
     /\ IsEditorRequest(req)
     /\ \E s \in {400, 403, 404, 409} : Answered(s)) =>
        /\ Kept(fs) = Kept(prevFs)
        /\ \A p \in Kept(fs) : fs[p] = prevFs[p]

\* a config URL was asked with a method it does not have and answered 404,
\* the data directory having been made
C14_Witness ==
    /\ phase = "done"
    /\ UrlIs(req, "gallery") /\ req.method \notin {"GET", "POST"}
    /\ Answered(404)
    /\ IsDir(fs, dataDir) /\ ~existsSync(prevFs, dataDir)
    /\ Kept(fs) = Kept(prevFs)
====
